---- MODULE Spec2Model ----
(***************************************************************************)
(* What-if cascade simulator of bv-graph-wasm (src/whatif.rs).             *)
(*                                                                         *)
(* The simulator is a family of pure functions over a dependency graph     *)
(* (DiGraph) and a closed-set.  The model builds a graph with add_node /   *)
(* add_edge, then applies one entry point to inputs drawn from bounded     *)
(* sets and records the call and its result.                               *)
(*                                                                         *)
(* Node indices are 0-based as in the source; a TLA+ sequence holding one  *)
(* slot per node is indexed at i + 1.                                      *)
(***************************************************************************)
EXTENDS Integers, Sequences, FiniteSets, TLC

VARIABLES graph, op, node, nodes, closed_set, limit, result, ranking

vars == <<graph, op, node, nodes, closed_set, limit, result, ranking>>

\* ------------------------------------------------------------------ bounds
MaxNodes == 3
MaxEdges == 3
MaxBatch == 2
MaxLimit == 3

\* ------------------------------------------------------------- small helpers
Min(a, b) == IF a < b THEN a ELSE b

Range(s) == {s[k] : k \in 1..Len(s)}

NoDup(s) == \A i, j \in 1..Len(s) : i # j => s[i] # s[j]

\* All sequences over S of length 0..k.
SeqsUpTo(S, k) == UNION {[1..m -> S] : m \in 0..k}

\* ------------------------------------------------------------- graph store
\* DiGraph: node count and the two adjacency indexes, each list in edge
\* insertion order; duplicates and self-loops are kept.
EmptyGraph == [n |-> 0, succ |-> <<>>, pred |-> <<>>]

add_node(g) ==
    [n |-> g.n + 1, succ |-> Append(g.succ, <<>>), pred |-> Append(g.pred, <<>>)]

add_edge(g, from, to) ==
    [n    |-> g.n,
     succ |-> [g.succ EXCEPT ![from + 1] = Append(@, to)],
     pred |-> [g.pred EXCEPT ![to + 1] = Append(@, from)]]

len(g) == g.n

successors_slice(g, v) == g.succ[v + 1]

predecessors_slice(g, v) == g.pred[v + 1]

RECURSIVE SumLen(_, _)
SumLen(ss, k) == IF k = 0 THEN 0 ELSE Len(ss[k]) + SumLen(ss, k - 1)

edge_count(g) == SumLen(g.succ, g.n)

\* ------------------------------------------------------------- closed-set
\* closed_set.get(i).copied().unwrap_or(false)
get(c, i) == i < Len(c) /\ c[i + 1]

\* Mutant: the copy is padded with true instead of false.
resize_true(c, n) == [k \in 1..n |-> IF k <= Len(c) THEN c[k] ELSE TRUE]

\* closed_set.to_vec() followed by resize(n, false)
resize(c, n) == [k \in 1..n |-> IF k <= Len(c) THEN c[k] ELSE FALSE]

\* ------------------------------------------------------------ reachability
\* Not closed, and every predecessor closed; entries missing from the
\* closed-set read as false.
is_actionable(g, v, c) ==
    /\ ~get(c, v)
    /\ \A k \in 1..Len(predecessors_slice(g, v)) : get(c, predecessors_slice(g, v)[k])

RECURSIVE ActionableFrom(_, _, _)
ActionableFrom(g, c, i) ==
    IF i >= len(g) THEN <<>>
    ELSE (IF is_actionable(g, i, c) THEN <<i>> ELSE <<>>) \o ActionableFrom(g, c, i + 1)

actionable_nodes(g, c) == ActionableFrom(g, c, 0)

\* ------------------------------------------------------------ WhatIfResult
\* Mutant: parallel_gain is direct - 1 without the saturation at zero.
MakeResult_unsaturated(direct, cascade) ==
    [direct_unblocks     |-> Len(direct),
     transitive_unblocks |-> Len(cascade),
     unblocked_ids       |-> direct,
     cascade_ids         |-> cascade,
     parallel_gain       |-> Len(direct) - 1]

MakeResult(direct, cascade) ==
    [direct_unblocks     |-> Len(direct),
     transitive_unblocks |-> Len(cascade),
     unblocked_ids       |-> direct,
     cascade_ids         |-> cascade,
     parallel_gain       |-> IF Len(direct) >= 1 THEN Len(direct) - 1 ELSE 0]

empty == MakeResult(<<>>, <<>>)

\* ------------------------------------------------------------ count_cascade
\* BFS state: working closed-set, visited marks, output list, queue.
\* Mutant: the roots are not checked against the visited marks.
RECURSIVE InitRoots_unchecked(_, _, _, _)
InitRoots_unchecked(n, roots, k, st) ==
    IF k > Len(roots) THEN st
    ELSE LET root == roots[k] IN
         IF root < n /\ ~st.closed[root + 1]
         THEN InitRoots_unchecked(n, roots, k + 1,
                  [st EXCEPT !.visited[root + 1] = TRUE,
                             !.cascade = Append(@, root),
                             !.queue = Append(@, root)])
         ELSE InitRoots_unchecked(n, roots, k + 1, st)

RECURSIVE InitRoots(_, _, _, _)
InitRoots(n, roots, k, st) ==
    IF k > Len(roots) THEN st
    ELSE LET root == roots[k] IN
         IF root < n /\ ~st.visited[root + 1] /\ ~st.closed[root + 1]
         THEN InitRoots(n, roots, k + 1,
                  [st EXCEPT !.visited[root + 1] = TRUE,
                             !.cascade = Append(@, root),
                             !.queue = Append(@, root)])
         ELSE InitRoots(n, roots, k + 1, st)

\* Mutant: one resolved predecessor is enough (any instead of all).
all_resolved_any(g, w, st) ==
    \E k \in 1..Len(predecessors_slice(g, w)) :
        LET p == predecessors_slice(g, w)[k] IN st.closed[p + 1] \/ st.visited[p + 1]

all_resolved(g, w, st) ==
    \A k \in 1..Len(predecessors_slice(g, w)) :
        LET p == predecessors_slice(g, w)[k] IN st.closed[p + 1] \/ st.visited[p + 1]

\* Mutant: a visited or closed successor ends the scan (break for continue).
RECURSIVE ScanSuccessors_break(_, _, _, _)
ScanSuccessors_break(g, ws, k, st) ==
    IF k > Len(ws) THEN st
    ELSE LET w == ws[k] IN
         IF st.visited[w + 1] \/ st.closed[w + 1]
         THEN st
         ELSE IF \A j \in 1..Len(predecessors_slice(g, w)) :
                     LET p == predecessors_slice(g, w)[j] IN st.closed[p + 1] \/ st.visited[p + 1]
              THEN ScanSuccessors_break(g, ws, k + 1,
                       [st EXCEPT !.visited[w + 1] = TRUE,
                                  !.cascade = Append(@, w),
                                  !.queue = Append(@, w)])
              ELSE ScanSuccessors_break(g, ws, k + 1, st)

\* Mutant: a successor is skipped only when visited; the closed check is gone.
RECURSIVE ScanSuccessors_visited_only(_, _, _, _)
ScanSuccessors_visited_only(g, ws, k, st) ==
    IF k > Len(ws) THEN st
    ELSE LET w == ws[k] IN
         IF st.visited[w + 1]
         THEN ScanSuccessors_visited_only(g, ws, k + 1, st)
         ELSE IF \A j \in 1..Len(predecessors_slice(g, w)) :
                     LET p == predecessors_slice(g, w)[j] IN st.closed[p + 1] \/ st.visited[p + 1]
              THEN ScanSuccessors_visited_only(g, ws, k + 1,
                       [st EXCEPT !.visited[w + 1] = TRUE,
                                  !.cascade = Append(@, w),
                                  !.queue = Append(@, w)])
              ELSE ScanSuccessors_visited_only(g, ws, k + 1, st)

\* The inner loop over the successors of the dequeued node.
RECURSIVE ScanSuccessors(_, _, _, _)
ScanSuccessors(g, ws, k, st) ==
    IF k > Len(ws) THEN st
    ELSE LET w == ws[k] IN
         IF st.visited[w + 1] \/ st.closed[w + 1]
         THEN ScanSuccessors(g, ws, k + 1, st)
         ELSE IF all_resolved(g, w, st)
              THEN ScanSuccessors(g, ws, k + 1,
                       [st EXCEPT !.visited[w + 1] = TRUE,
                                  !.cascade = Append(@, w),
                                  !.queue = Append(@, w)])
              ELSE ScanSuccessors(g, ws, k + 1, st)

\* Mutant: after each dequeue every node of the graph is examined, not only
\* the successors of the dequeued node.
RECURSIVE BfsLoop_all_nodes(_, _)
BfsLoop_all_nodes(g, st) ==
    IF st.queue = <<>> THEN st
    ELSE LET v == Head(st.queue)
             popped == [st EXCEPT !.queue = Tail(@),
                                  !.closed[v + 1] = TRUE,
                                  !.pops = @ + 1]
         IN BfsLoop_all_nodes(g, ScanSuccessors(g, [k \in 1..len(g) |-> k - 1], 1, popped))

\* Mutant: the queue is used as a stack (pop_back for pop_front).
RECURSIVE BfsLoop_lifo(_, _)
BfsLoop_lifo(g, st) ==
    IF st.queue = <<>> THEN st
    ELSE LET v == st.queue[Len(st.queue)]
             popped == [st EXCEPT !.queue = SubSeq(@, 1, Len(@) - 1),
                                  !.closed[v + 1] = TRUE,
                                  !.pops = @ + 1]
         IN BfsLoop_lifo(g, ScanSuccessors(g, successors_slice(g, v), 1, popped))

\* Mutant: the dequeued node is not marked closed in the working copy.
RECURSIVE BfsLoop_no_close(_, _)
BfsLoop_no_close(g, st) ==
    IF st.queue = <<>> THEN st
    ELSE LET v == Head(st.queue)
             popped == [st EXCEPT !.queue = Tail(@), !.pops = @ + 1]
         IN BfsLoop_no_close(g, ScanSuccessors(g, successors_slice(g, v), 1, popped))

\* while let Some(v) = queue.pop_front()
RECURSIVE BfsLoop(_, _)
BfsLoop(g, st) ==
    IF st.queue = <<>> THEN st
    ELSE LET v == Head(st.queue)
             popped == [st EXCEPT !.queue = Tail(@),
                                  !.closed[v + 1] = TRUE,
                                  !.pops = @ + 1]
         IN BfsLoop(g, ScanSuccessors(g, successors_slice(g, v), 1, popped))

\* The state count_cascade ends in (its locals when the loop exits).
cascade_run(g, roots, initial_closed) ==
    LET n == len(g)
        st0 == [closed  |-> resize(initial_closed, n),
                visited |-> [k \in 1..n |-> FALSE],
                cascade |-> <<>>,
                queue   |-> <<>>,
                pops    |-> 0]
    IN BfsLoop(g, InitRoots(n, roots, 1, st0))

count_cascade(g, roots, initial_closed) ==
    IF len(g) = 0 \/ roots = <<>> THEN roots
    ELSE cascade_run(g, roots, initial_closed).cascade

\* ------------------------------------------------------------ what_if_close
\* Mutant: every successor that is not closed counts as a direct unblock.
direct_of_any_open(g, v, c, new_closed) ==
    LET Open(s) == ~new_closed[s + 1]
    IN SelectSeq(successors_slice(g, v), Open)

\* The loop over the successors of the closed node (no "seen" guard here).
direct_of(g, v, c, new_closed) ==
    LET Unblocked(s) == /\ ~new_closed[s + 1]
                        /\ ~is_actionable(g, s, c)
                        /\ is_actionable(g, s, new_closed)
    IN SelectSeq(successors_slice(g, v), Unblocked)

\* Lines 55-93: the simulation once the node is accepted.
simulate_close(g, v, c) ==
    LET new_closed == [resize(c, len(g)) EXCEPT ![v + 1] = TRUE]
        direct_unblocks == direct_of(g, v, c, new_closed)
    IN MakeResult(direct_unblocks, count_cascade(g, direct_unblocks, new_closed))

\* Mutant: the range check is off by one (node > n), so node = n reaches
\* new_closed[node] = true, an index out of bounds.
Panicked == [panic |-> "index out of bounds"]

what_if_close_off_by_one(g, v, c) ==
    IF v > len(g) \/ get(c, v) THEN empty
    ELSE IF v >= len(g) THEN Panicked ELSE simulate_close(g, v, c)

what_if_close(g, v, c) ==
    IF v >= len(g) \/ get(c, v) THEN empty ELSE simulate_close(g, v, c)

\* ------------------------------------------------------ what_if_close_batch
RECURSIVE CloseAll(_, _, _, _)
CloseAll(n, ns, k, c) ==
    IF k > Len(ns) THEN c
    ELSE CloseAll(n, ns, k + 1, IF ns[k] < n THEN [c EXCEPT ![ns[k] + 1] = TRUE] ELSE c)

\* Mutant: the batch loop without the "seen" guard.
RECURSIVE BatchScan_unguarded(_, _, _, _, _, _)
BatchScan_unguarded(g, ws, k, c, new_closed, acc) ==
    IF k > Len(ws) THEN acc
    ELSE LET s == ws[k] IN
         IF new_closed[s + 1]
         THEN BatchScan_unguarded(g, ws, k + 1, c, new_closed, acc)
         ELSE LET hit == ~is_actionable(g, s, c) /\ is_actionable(g, s, new_closed)
              IN BatchScan_unguarded(g, ws, k + 1, c, new_closed,
                     [seen   |-> acc.seen,
                      direct |-> IF hit THEN Append(acc.direct, s) ELSE acc.direct])

\* Mutant: the batch loop without the was_blocked test.
RECURSIVE BatchScan_now_only(_, _, _, _, _, _)
BatchScan_now_only(g, ws, k, c, new_closed, acc) ==
    IF k > Len(ws) THEN acc
    ELSE LET s == ws[k] IN
         IF acc.seen[s + 1] \/ new_closed[s + 1]
         THEN BatchScan_now_only(g, ws, k + 1, c, new_closed, acc)
         ELSE LET hit == is_actionable(g, s, new_closed)
              IN BatchScan_now_only(g, ws, k + 1, c, new_closed,
                     [seen   |-> [acc.seen EXCEPT ![s + 1] = TRUE],
                      direct |-> IF hit THEN Append(acc.direct, s) ELSE acc.direct])

\* The inner loop over one batch node's successors; acc = [direct, seen].
RECURSIVE BatchScan(_, _, _, _, _, _)
BatchScan(g, ws, k, c, new_closed, acc) ==
    IF k > Len(ws) THEN acc
    ELSE LET s == ws[k] IN
         IF acc.seen[s + 1] \/ new_closed[s + 1]
         THEN BatchScan(g, ws, k + 1, c, new_closed, acc)
         ELSE LET hit == ~is_actionable(g, s, c) /\ is_actionable(g, s, new_closed)
              IN BatchScan(g, ws, k + 1, c, new_closed,
                     [seen   |-> [acc.seen EXCEPT ![s + 1] = TRUE],
                      direct |-> IF hit THEN Append(acc.direct, s) ELSE acc.direct])

\* The outer loop over the batch.
RECURSIVE BatchDirect(_, _, _, _, _, _)
BatchDirect(g, ns, k, c, new_closed, acc) ==
    IF k > Len(ns) THEN acc
    ELSE IF ns[k] >= len(g)
         THEN BatchDirect(g, ns, k + 1, c, new_closed, acc)
         ELSE BatchDirect(g, ns, k + 1, c, new_closed,
                  BatchScan(g, successors_slice(g, ns[k]), 1, c, new_closed, acc))

\* Mutant: the two "node < n" checks are missing, so an index past the last
\* node reaches new_closed[node] = true, an index out of bounds.
what_if_close_batch_unchecked(g, ns, c) ==
    IF len(g) = 0 \/ ns = <<>> THEN empty
    ELSE IF \E k \in 1..Len(ns) : ns[k] >= len(g) THEN Panicked
    ELSE LET n == len(g)
             new_closed == CloseAll(n, ns, 1, resize(c, n))
             acc0 == [seen |-> [k \in 1..n |-> FALSE], direct |-> <<>>]
             direct_unblocks == BatchDirect(g, ns, 1, c, new_closed, acc0).direct
         IN MakeResult(direct_unblocks, count_cascade(g, direct_unblocks, new_closed))

\* Mutant: the cascade is run on the caller's closed-set, without the batch.
what_if_close_batch_stale_closed(g, ns, c) ==
    IF len(g) = 0 \/ ns = <<>> THEN empty
    ELSE LET n == len(g)
             new_closed == CloseAll(n, ns, 1, resize(c, n))
             acc0 == [seen |-> [k \in 1..n |-> FALSE], direct |-> <<>>]
             direct_unblocks == BatchDirect(g, ns, 1, c, new_closed, acc0).direct
         IN MakeResult(direct_unblocks, count_cascade(g, direct_unblocks, c))

what_if_close_batch(g, ns, c) ==
    IF len(g) = 0 \/ ns = <<>> THEN empty
    ELSE LET n == len(g)
             new_closed == CloseAll(n, ns, 1, resize(c, n))
             acc0 == [seen |-> [k \in 1..n |-> FALSE], direct |-> <<>>]
             direct_unblocks == BatchDirect(g, ns, 1, c, new_closed, acc0).direct
         IN MakeResult(direct_unblocks, count_cascade(g, direct_unblocks, new_closed))

\* ------------------------------------------------------------------ ranking
TopWhatIfEntry(v, r) == [node |-> v, result |-> r]

\* Mutant: the comparator the other way round (a.cmp(b)): ascending order.
RECURSIVE InsertEntry_ascending(_, _)
InsertEntry_ascending(sorted, e) ==
    IF sorted = <<>> THEN <<e>>
    ELSE IF Head(sorted).result.transitive_unblocks <= e.result.transitive_unblocks
         THEN <<Head(sorted)>> \o InsertEntry_ascending(Tail(sorted), e)
         ELSE <<e>> \o sorted

\* Mutant: an unstable sort that puts a later entry before its equals.
RECURSIVE InsertEntry_unstable(_, _)
InsertEntry_unstable(sorted, e) ==
    IF sorted = <<>> THEN <<e>>
    ELSE IF Head(sorted).result.transitive_unblocks > e.result.transitive_unblocks
         THEN <<Head(sorted)>> \o InsertEntry_unstable(Tail(sorted), e)
         ELSE <<e>> \o sorted

\* results.sort_by(|a, b| b.transitive_unblocks.cmp(&a.transitive_unblocks)):
\* a stable sort, so an entry goes behind every entry that does not compare
\* greater than it.
RECURSIVE InsertEntry(_, _)
InsertEntry(sorted, e) ==
    IF sorted = <<>> THEN <<e>>
    ELSE IF Head(sorted).result.transitive_unblocks >= e.result.transitive_unblocks
         THEN <<Head(sorted)>> \o InsertEntry(Tail(sorted), e)
         ELSE <<e>> \o sorted

RECURSIVE SortFrom(_, _, _)
SortFrom(es, k, sorted) ==
    IF k > Len(es) THEN sorted ELSE SortFrom(es, k + 1, InsertEntry(sorted, es[k]))

sort_by(es) == SortFrom(es, 1, <<>>)

truncate(es, l) == SubSeq(es, 1, Min(l, Len(es)))

HasImpact(e) == e.result.transitive_unblocks > 0

top_what_if(g, c, l) ==
    IF len(g) = 0 THEN <<>>
    ELSE LET candidates == actionable_nodes(g, c)
             mapped == [k \in 1..Len(candidates) |->
                           TopWhatIfEntry(candidates[k], what_if_close(g, candidates[k], c))]
         IN truncate(sort_by(SelectSeq(mapped, HasImpact)), l)

\* Mutant: only the currently actionable nodes are candidates.
all_what_if_actionable_only(g, c, l) == top_what_if(g, c, l)

RECURSIVE OpenFrom(_, _, _)
OpenFrom(n, closed, i) ==
    IF i >= n THEN <<>>
    ELSE (IF ~closed[i + 1] THEN <<i>> ELSE <<>>) \o OpenFrom(n, closed, i + 1)

\* Mutant: one working closed-set is shared by the candidates, so the closures
\* simulated for one candidate are still there when the next is evaluated.
RECURSIVE CloseEach(_, _, _)
CloseEach(closed, vs, k) ==
    IF k > Len(vs) THEN closed ELSE CloseEach([closed EXCEPT ![vs[k] + 1] = TRUE], vs, k + 1)

RECURSIVE EvalShared(_, _, _, _)
EvalShared(g, cands, k, closed) ==
    IF k > Len(cands) THEN <<>>
    ELSE LET r == what_if_close(g, cands[k], closed)
             after == IF closed[cands[k] + 1] THEN closed
                      ELSE CloseEach([closed EXCEPT ![cands[k] + 1] = TRUE], r.cascade_ids, 1)
         IN <<TopWhatIfEntry(cands[k], r)>> \o EvalShared(g, cands, k + 1, after)

all_what_if_shared(g, c, l) ==
    IF len(g) = 0 THEN <<>>
    ELSE LET closed == resize(c, len(g))
             open == OpenFrom(len(g), closed, 0)
         IN truncate(sort_by(SelectSeq(EvalShared(g, open, 1, closed), HasImpact)), l)

all_what_if(g, c, l) ==
    IF len(g) = 0 THEN <<>>
    ELSE LET closed == resize(c, len(g))
             open == OpenFrom(len(g), closed, 0)
             mapped == [k \in 1..Len(open) |->
                           TopWhatIfEntry(open[k], what_if_close(g, open[k], closed))]
         IN truncate(sort_by(SelectSeq(mapped, HasImpact)), l)

\* ------------------------------------------------------------ test fixtures
RECURSIVE AddNodes(_, _)
AddNodes(g, k) == IF k = 0 THEN g ELSE AddNodes(add_node(g), k - 1)

RECURSIVE AddEdges(_, _, _)
AddEdges(g, es, k) ==
    IF k > Len(es) THEN g ELSE AddEdges(add_edge(g, es[k][1], es[k][2]), es, k + 1)

Build(n, es) == AddEdges(AddNodes(EmptyGraph, n), es, 1)

Diamond == Build(4, <<<<0, 1>>, <<0, 2>>, <<1, 3>>, <<2, 3>>>>)

WideFanout == Build(6, <<<<0, 1>>, <<0, 2>>, <<0, 3>>, <<0, 4>>, <<0, 5>>>>)

DeepChain == Build(6, <<<<0, 1>>, <<1, 2>>, <<2, 3>>, <<3, 4>>, <<4, 5>>>>)

TopExample == Build(6, <<<<0, 1>>, <<0, 2>>, <<0, 3>>, <<4, 5>>>>)

BatchCascade == Build(5, <<<<0, 2>>, <<1, 3>>, <<2, 4>>, <<3, 4>>>>)

Disconnected == Build(4, <<<<0, 1>>, <<2, 3>>>>)

Fixtures == {Diamond, WideFanout, DeepChain, TopExample, BatchCascade, Disconnected}

\* Further inputs beyond the exhaustive bounds: a node (2) that is examined
\* before its last predecessor (3) is discovered, a diamond whose first
\* edge is doubled, and two branches of depth two under one node.
LateJoin == Build(4, <<<<0, 1>>, <<1, 2>>, <<1, 3>>, <<3, 2>>>>)

DoubledDiamond == Build(4, <<<<0, 1>>, <<0, 1>>, <<0, 2>>, <<1, 3>>, <<2, 3>>>>)

TwoBranches == Build(5, <<<<0, 1>>, <<0, 2>>, <<1, 3>>, <<2, 4>>>>)

Probes == {LateJoin, DoubledDiamond, TwoBranches}

\* ------------------------------------------------------------------- inputs
ClosedSets(n) == SeqsUpTo(BOOLEAN, n)

NodeArgs(n) == 0..n

BatchArgs(n) == SeqsUpTo(NodeArgs(n), MaxBatch)

\* ------------------------------------------------------------ state machine
NoCall == /\ node = 0 /\ nodes = <<>> /\ closed_set = <<>> /\ limit = 0
          /\ result = empty /\ ranking = <<>>

Init == /\ graph \in {EmptyGraph} \cup Fixtures \cup Probes
        /\ op = "none"
        /\ NoCall

AddNode ==
    /\ op = "none"
    /\ len(graph) < MaxNodes
    /\ graph' = add_node(graph)
    /\ UNCHANGED <<op, node, nodes, closed_set, limit, result, ranking>>

AddEdge ==
    /\ op = "none"
    /\ edge_count(graph) < MaxEdges
    /\ \E from \in 0..(len(graph) - 1), to \in 0..(len(graph) - 1) :
           graph' = add_edge(graph, from, to)
    /\ UNCHANGED <<op, node, nodes, closed_set, limit, result, ranking>>

WhatIfClose ==
    /\ op = "none"
    /\ \E v \in NodeArgs(len(graph)), c \in ClosedSets(len(graph)) :
           /\ node' = v
           /\ closed_set' = c
           /\ result' = what_if_close(graph, v, c)
    /\ op' = "what_if_close"
    /\ UNCHANGED <<graph, nodes, limit, ranking>>

WhatIfCloseBatch ==
    /\ op = "none"
    /\ \E ns \in BatchArgs(len(graph)), c \in ClosedSets(len(graph)) :
           /\ nodes' = ns
           /\ closed_set' = c
           /\ result' = what_if_close_batch(graph, ns, c)
    /\ op' = "what_if_close_batch"
    /\ UNCHANGED <<graph, node, limit, ranking>>

TopWhatIf ==
    /\ op = "none"
    /\ \E c \in ClosedSets(len(graph)), l \in 0..MaxLimit :
           /\ closed_set' = c
           /\ limit' = l
           /\ ranking' = top_what_if(graph, c, l)
    /\ op' = "top_what_if"
    /\ UNCHANGED <<graph, node, nodes, result>>

AllWhatIf ==
    /\ op = "none"
    /\ \E c \in ClosedSets(len(graph)), l \in 0..MaxLimit :
           /\ closed_set' = c
           /\ limit' = l
           /\ ranking' = all_what_if(graph, c, l)
    /\ op' = "all_what_if"
    /\ UNCHANGED <<graph, node, nodes, result>>

Next == \/ AddNode
        \/ AddEdge
        \/ WhatIfClose
        \/ WhatIfCloseBatch
        \/ TopWhatIf
        \/ AllWhatIf

Spec == Init /\ [][Next]_vars

\* ------------------------------------------------------------ vocabulary
\* The claims speak of sets: the nodes, the originally closed nodes, the
\* predecessors and successors of a node, and actionability under a set of
\* closed nodes (not closed, every predecessor closed).
Nodes == 0..(len(graph) - 1)

ClosedNodes == {i \in Nodes : get(closed_set, i)}

Preds(w) == Range(predecessors_slice(graph, w))

Succs(v) == Range(successors_slice(graph, v))

Actionable(w, C) == w \notin C /\ Preds(w) \subseteq C

NothingClosed == \A k \in 1..Len(closed_set) : ~closed_set[k]

\* A call of what_if_close that is not rejected.
Accepted == op = "what_if_close" /\ node < len(graph) /\ ~get(closed_set, node)

Simulated == Accepted \/ op = "what_if_close_batch"

\* The nodes the call closes.
Seeds == IF op = "what_if_close" THEN {node} ELSE Range(nodes) \cap Nodes

\* ----------------------------------------------------------------- C1
EmptyResult ==
    [direct_unblocks |-> 0, transitive_unblocks |-> 0, unblocked_ids |-> <<>>,
     cascade_ids |-> <<>>, parallel_gain |-> 0]

\* C1: what_if_close on a node that is out of range (v >= n, the empty graph
\* and v = 0 included) or already closed returns the empty result.
C1_RejectedIsEmpty ==
    (op = "what_if_close" /\ (node >= len(graph) \/ get(closed_set, node)))
        => result = EmptyResult

\* An already-closed node that has successors is rejected.
C1_Witness ==
    /\ op = "what_if_close"
    /\ node < len(graph)
    /\ get(closed_set, node)
    /\ successors_slice(graph, node) # <<>>
    /\ result = EmptyResult

\* The empty graph with v = 0, and an index one past the last node.
C1_OutOfRangeWitness ==
    /\ op = "what_if_close" /\ node = len(graph) /\ result = EmptyResult

\* ----------------------------------------------------------------- C2
TwoBlockers == Build(3, <<<<0, 2>>, <<1, 2>>>>)

DirectSet(v) ==
    {w \in Succs(v) : /\ w \notin ClosedNodes
                      /\ ~Actionable(w, ClosedNodes)
                      /\ Actionable(w, ClosedNodes \cup {v})}

\* C2: for an accepted node v, unblocked_ids holds exactly the successors of v
\* that are not closed, were not actionable, and are actionable with v closed;
\* on a->c, b->c closing a alone unblocks nothing, closing b after a unblocks c.
C2_DirectUnblocks ==
    /\ Accepted => Range(result.unblocked_ids) = DirectSet(node)
    /\ (Accepted /\ graph = TwoBlockers /\ ClosedNodes = {} /\ node = 0)
           => result.direct_unblocks = 0
    /\ (Accepted /\ graph = TwoBlockers /\ ClosedNodes = {0} /\ node = 1)
           => result.direct_unblocks = 1

C2_Witness ==
    /\ Accepted
    /\ graph = TwoBlockers
    /\ ClosedNodes = {0}
    /\ node = 1
    /\ result.unblocked_ids = <<2>>

\* ----------------------------------------------------------------- C3
\* C3: every predecessor of cascade_ids[i] is originally closed, a seed, or at
\* an earlier position of cascade_ids (what_if_close and what_if_close_batch).
C3_CascadeSound ==
    Simulated =>
        \A i \in 1..Len(result.cascade_ids) :
            \A p \in Preds(result.cascade_ids[i]) :
                \/ p \in ClosedNodes
                \/ p \in Seeds
                \/ \E j \in 1..(i - 1) : result.cascade_ids[j] = p

\* A cascade node all of whose predecessors are earlier cascade nodes, two of them.
C3_Witness ==
    /\ Simulated
    /\ \E i \in 1..Len(result.cascade_ids) :
           /\ Cardinality(Preds(result.cascade_ids[i])) >= 2
           /\ Preds(result.cascade_ids[i]) \subseteq
                  {result.cascade_ids[j] : j \in 1..(i - 1)}

\* ----------------------------------------------------------------- C4
\* One round of the chain reaction from a set K of unblocked nodes.
Grow(v, K) ==
    K \cup {w \in Nodes : /\ w \notin ClosedNodes
                          /\ w # v
                          /\ Preds(w) \subseteq (ClosedNodes \cup {v} \cup K)
                          /\ Preds(w) \cap ({v} \cup K) # {}}

RECURSIVE LeastCascade(_, _)
LeastCascade(v, K) == IF Grow(v, K) = K THEN K ELSE LeastCascade(v, Grow(v, K))

\* The same edges inserted in the opposite order.
Reverse(s) == [k \in 1..Len(s) |-> s[Len(s) + 1 - k]]

ReversedInsertion(g) ==
    [n    |-> g.n,
     succ |-> [k \in 1..g.n |-> Reverse(g.succ[k])],
     pred |-> [k \in 1..g.n |-> Reverse(g.pred[k])]]

\* C4: for an accepted node v the nodes of cascade_ids are exactly the least
\* set closed under the chain reaction, and inserting the edges in the opposite
\* order gives the same set.
C4_CascadeComplete ==
    Accepted =>
        /\ Range(result.cascade_ids) = LeastCascade(node, {})
        /\ Range(what_if_close(ReversedInsertion(graph), node, closed_set).cascade_ids)
               = Range(result.cascade_ids)

\* A node that joins the cascade in a later round than the direct unblocks, on
\* a graph with a cycle.
C4_Witness ==
    /\ Accepted
    /\ Range(result.cascade_ids) # Range(result.unblocked_ids)
    /\ \E w \in Range(result.cascade_ids) : node \in Succs(w)

\* A node examined before its last predecessor was discovered still joins.
C4_LateJoinWitness ==
    /\ Accepted
    /\ graph = LateJoin
    /\ node = 0
    /\ result.cascade_ids = <<1, 3, 2>>

\* ----------------------------------------------------------------- C5
\* C5: cascade_ids holds no index twice, the two counts are the lengths of the
\* two lists, and on the diamond closing a gives 2 direct and 3 transitive.
C5_CascadeOnce ==
    /\ op \in {"what_if_close", "what_if_close_batch"} =>
           /\ NoDup(result.cascade_ids)
           /\ result.transitive_unblocks = Len(result.cascade_ids)
           /\ result.direct_unblocks = Len(result.unblocked_ids)
    /\ (Accepted /\ graph = Diamond /\ ClosedNodes = {} /\ node = 0) =>
           /\ result.direct_unblocks = 2
           /\ result.transitive_unblocks = 3
           /\ Range(result.cascade_ids) = {1, 2, 3}

\* The diamond, and a doubled edge whose target is listed twice as a direct
\* unblock but once in the cascade.
C5_Witness ==
    /\ Accepted
    /\ ~NoDup(result.unblocked_ids)
    /\ Len(result.cascade_ids) >= 2

C5_DiamondWitness ==
    /\ Accepted /\ graph = Diamond /\ ClosedNodes = {} /\ node = 0
    /\ result.transitive_unblocks = 3

\* ----------------------------------------------------------------- C6
\* a -> {b0 .. b(k-1)}, k >= 1: node 0 has each other node as successor once.
IsFanOut(g) ==
    /\ g.n >= 2
    /\ Len(g.succ[1]) = g.n - 1
    /\ Range(g.succ[1]) = 1..(g.n - 1)
    /\ \A i \in 2..g.n : g.succ[i] = <<>>

\* C6: parallel_gain is direct_unblocks - 1, and 0 when nothing is unblocked;
\* never negative.  Closing the hub of a fan-out of k gives k, k and k - 1.
C6_ParallelGain ==
    /\ op \in {"what_if_close", "what_if_close_batch"} =>
           /\ result.parallel_gain >= 0
           /\ result.direct_unblocks >= 1 => result.parallel_gain = result.direct_unblocks - 1
           /\ result.direct_unblocks = 0 => result.parallel_gain = 0
    /\ (Accepted /\ IsFanOut(graph) /\ ClosedNodes = {} /\ node = 0) =>
           /\ result.direct_unblocks = len(graph) - 1
           /\ result.transitive_unblocks = len(graph) - 1
           /\ result.parallel_gain = len(graph) - 2

C6_Witness ==
    /\ Accepted /\ graph = WideFanout /\ ClosedNodes = {} /\ node = 0
    /\ result.direct_unblocks = 5
    /\ result.parallel_gain = 4

\* A call that unblocks nothing: the gain stays at 0.
C6_ZeroWitness ==
    /\ Simulated /\ result.direct_unblocks = 0 /\ result.parallel_gain = 0

\* ----------------------------------------------------------------- C7
BatchDirectSet ==
    {w \in UNION {Succs(v) : v \in Seeds} :
        /\ w \notin ClosedNodes
        /\ w \notin Seeds
        /\ ~Actionable(w, ClosedNodes)
        /\ Actionable(w, ClosedNodes \cup Seeds)}

\* C7: the batch's unblocked_ids holds, once each, exactly the successors of
\* the batch that are not closed, not in the batch, were not actionable, and
\* are actionable with the whole batch closed.  On a->c, b->c the batch {a, b}
\* gives 1 although a alone and b alone give 0.
C7_BatchDirect ==
    /\ op = "what_if_close_batch" =>
           /\ Range(result.unblocked_ids) = BatchDirectSet
           /\ NoDup(result.unblocked_ids)
           /\ result.direct_unblocks = Cardinality(BatchDirectSet)
    /\ (op = "what_if_close_batch" /\ graph = TwoBlockers /\ ClosedNodes = {}
            /\ Range(nodes) = {0, 1}) =>
           /\ result.direct_unblocks = 1
           /\ what_if_close(graph, 0, closed_set).direct_unblocks = 0
           /\ what_if_close(graph, 1, closed_set).direct_unblocks = 0

C7_Witness ==
    /\ op = "what_if_close_batch" /\ graph = TwoBlockers /\ ClosedNodes = {}
    /\ nodes = <<0, 1>>
    /\ result.unblocked_ids = <<2>>

\* ----------------------------------------------------------------- C8
EntryNodes == {ranking[k].node : k \in 1..Len(ranking)}

Impact(v) == what_if_close(graph, v, closed_set).transitive_unblocks

NonIncreasing ==
    \A k \in 1..(Len(ranking) - 1) :
        ranking[k].result.transitive_unblocks >= ranking[k + 1].result.transitive_unblocks

\* C8: top_what_if returns at most limit entries (none for limit 0 or the
\* empty graph), each an actionable node with impact > 0, in non-increasing
\* order of impact, and no omitted actionable node beats a returned one (nor is
\* one with impact left out while there is room).  a->{b,c,d}, e->f: a before e.
C8_TopRanking ==
    /\ op = "top_what_if" =>
           /\ Len(ranking) <= limit
           /\ (limit = 0 \/ len(graph) = 0) => ranking = <<>>
           /\ \A k \in 1..Len(ranking) :
                  /\ Actionable(ranking[k].node, ClosedNodes)
                  /\ ranking[k].result.transitive_unblocks > 0
           /\ NonIncreasing
           /\ \A v \in Nodes \ EntryNodes :
                  Actionable(v, ClosedNodes) =>
                      /\ \A k \in 1..Len(ranking) :
                             Impact(v) <= ranking[k].result.transitive_unblocks
                      /\ Len(ranking) < limit => Impact(v) = 0
    /\ (op = "top_what_if" /\ graph = TopExample /\ ClosedNodes = {} /\ limit >= 2) =>
           /\ Len(ranking) = 2
           /\ ranking[1].node = 0 /\ ranking[1].result.transitive_unblocks = 3
           /\ ranking[2].node = 4 /\ ranking[2].result.transitive_unblocks = 1

C8_Witness ==
    /\ op = "top_what_if" /\ graph = TopExample /\ ClosedNodes = {} /\ limit = 2
    /\ Len(ranking) = 2
    /\ ranking[1].node = 0

\* The limit cuts an actionable node with impact off the list.
C8_TruncationWitness ==
    /\ op = "top_what_if" /\ limit >= 1 /\ Len(ranking) = limit
    /\ \E v \in Nodes \ EntryNodes : Actionable(v, ClosedNodes) /\ Impact(v) > 0

\* ----------------------------------------------------------------- C9
Candidates ==
    IF op = "top_what_if" THEN {v \in Nodes : Actionable(v, ClosedNodes)}
    ELSE Nodes \ ClosedNodes

\* C9: in the output of top_what_if and all_what_if entries of equal impact
\* stand in ascending node-index order, and of a tied group cut by the limit
\* the lower indexes are the ones kept.
C9_TiesByIndex ==
    op \in {"top_what_if", "all_what_if"} =>
        /\ \A i, j \in 1..Len(ranking) :
               (i < j /\ ranking[i].result.transitive_unblocks
                             = ranking[j].result.transitive_unblocks)
                   => ranking[i].node < ranking[j].node
        /\ \A v \in Candidates \ EntryNodes :
               \A k \in 1..Len(ranking) :
                   (Impact(v) > 0 /\ Impact(v) = ranking[k].result.transitive_unblocks)
                       => ranking[k].node < v

\* top_what_if: two tied entries returned.
C9_Witness ==
    /\ op = "top_what_if"
    /\ Len(ranking) >= 2
    /\ ranking[1].result.transitive_unblocks = ranking[2].result.transitive_unblocks
    /\ ranking[1].node < ranking[2].node

\* The limit cuts through a tied group (top_what_if and all_what_if).
C9_CutWitness ==
    /\ op = "top_what_if" /\ Len(ranking) >= 1
    /\ \E v \in Candidates \ EntryNodes :
           Impact(v) = ranking[Len(ranking)].result.transitive_unblocks

C9_AllCutWitness ==
    /\ op = "all_what_if" /\ Len(ranking) >= 2
    /\ ranking[1].result.transitive_unblocks = ranking[2].result.transitive_unblocks
    /\ \E v \in Candidates \ EntryNodes :
           Impact(v) = ranking[Len(ranking)].result.transitive_unblocks

\* ---------------------------------------------------------------- C10
WithImpact == {v \in Nodes \ ClosedNodes : Impact(v) > 0}

\* C10: all_what_if lists the non-closed nodes whose what_if_close has impact,
\* each with that result, in non-increasing order of impact, cut to limit;
\* blocked nodes are included and closed ones are not.
C10_AllRanking ==
    op = "all_what_if" =>
        /\ Len(ranking) = Min(limit, Cardinality(WithImpact))
        /\ EntryNodes \subseteq WithImpact
        /\ EntryNodes \cap ClosedNodes = {}
        /\ \A i, j \in 1..Len(ranking) : i # j => ranking[i].node # ranking[j].node
        /\ \A k \in 1..Len(ranking) :
               ranking[k].result = what_if_close(graph, ranking[k].node, closed_set)
        /\ NonIncreasing
        /\ \A v \in WithImpact \ EntryNodes :
               \A k \in 1..Len(ranking) :
                   Impact(v) <= ranking[k].result.transitive_unblocks

\* A blocked node is ranked, beside a closed node that is not.
C10_Witness ==
    /\ op = "all_what_if"
    /\ ClosedNodes # {}
    /\ \E k \in 1..Len(ranking) : ~Actionable(ranking[k].node, ClosedNodes)

\* ---------------------------------------------------------------- C11
\* The closed-set with false appended up to length n.
PadFalse(c, n) == c \o [k \in 1..(n - Len(c)) |-> FALSE]

Padded == PadFalse(closed_set, len(graph))

\* C11: on a closed-set shorter than the node count every entry point returns
\* what it returns on that closed-set extended with false up to length n.
C11_ShortClosedSet ==
    Len(closed_set) < len(graph) =>
        /\ op = "what_if_close" => result = what_if_close(graph, node, Padded)
        /\ op = "what_if_close_batch" => result = what_if_close_batch(graph, nodes, Padded)
        /\ op = "top_what_if" => ranking = top_what_if(graph, Padded, limit)
        /\ op = "all_what_if" => ranking = all_what_if(graph, Padded, limit)

\* The closed node's own entry and a predecessor's entry are both missing, and
\* a cascade of two comes out.
C11_Witness ==
    /\ op = "what_if_close"
    /\ Len(closed_set) <= node
    /\ Len(closed_set) < len(graph) - 1
    /\ Len(result.cascade_ids) >= 2

C11_RankingWitness ==
    /\ op = "all_what_if" /\ closed_set = <<TRUE>> /\ len(graph) = 3 /\ Len(ranking) = 2

\* ---------------------------------------------------------------- C12
\* The batch without its out-of-range indices.
InRangeOnly ==
    LET InRange(v) == v < len(graph) IN SelectSeq(nodes, InRange)

\* C12: what_if_close_batch returns the empty result on the empty graph, on
\* the empty list and on a list of out-of-range indices only, and otherwise
\* the result of the batch restricted to its in-range indices.
C12_DegenerateBatch ==
    op = "what_if_close_batch" =>
        /\ (len(graph) = 0 \/ nodes = <<>> \/ InRangeOnly = <<>>) => result = EmptyResult
        /\ result = what_if_close_batch(graph, InRangeOnly, closed_set)

\* An out-of-range index beside a valid one whose closure starts a cascade.
C12_Witness ==
    /\ op = "what_if_close_batch"
    /\ Len(nodes) = 2
    /\ Len(InRangeOnly) = 1
    /\ Len(result.cascade_ids) >= 2

\* Only out-of-range indices, on a graph that has edges.
C12_AllOutWitness ==
    /\ op = "what_if_close_batch" /\ nodes # <<>> /\ InRangeOnly = <<>>
    /\ edge_count(graph) > 0 /\ result = EmptyResult

\* ---------------------------------------------------------------- C13
\* Nodes reachable from the set S by a directed path of at least one edge.
RECURSIVE Downstream(_, _)
Downstream(S, R) ==
    LET R2 == R \cup UNION {Succs(u) : u \in S \cup R}
    IN IF R2 = R THEN R ELSE Downstream(S, R2)

\* The weakly connected component of v.
RECURSIVE WeakComponent(_)
WeakComponent(R) ==
    LET R2 == R \cup UNION {Succs(u) \cup Preds(u) : u \in R}
    IN IF R2 = R THEN R ELSE WeakComponent(R2)

\* C13: every node of what_if_close's cascade_ids and unblocked_ids is
\* reachable from the closed node by a directed path of at least one edge, so
\* none lies in another weakly connected component.
C13_CascadeDownstream ==
    Accepted =>
        /\ Range(result.cascade_ids) \subseteq Downstream({node}, {})
        /\ Range(result.unblocked_ids) \subseteq Downstream({node}, {})
        /\ (Range(result.cascade_ids) \cup Range(result.unblocked_ids))
               \subseteq WeakComponent({node})

\* Two components, the other one holding a blocked node; the cascade stays in
\* the closed node's component.
C13_Witness ==
    /\ Accepted /\ graph = Disconnected /\ ClosedNodes = {}
    /\ node = 2
    /\ result.cascade_ids = <<3>>
    /\ WeakComponent({node}) = {2, 3}

\* An upstream node of the same component that is actionable stays out.
C13_UpstreamWitness ==
    /\ Accepted
    /\ result.cascade_ids # <<>>
    /\ \E u \in Nodes \ ({node} \cup ClosedNodes) :
           /\ u \in WeakComponent({node}) \ Downstream({node}, {})
           /\ Actionable(u, ClosedNodes \cup {node} \cup Range(result.cascade_ids))

\* ---------------------------------------------------------------- C14
\* s without the repetitions of its elements, first occurrences kept.
RECURSIVE Distinct(_)
Distinct(s) ==
    IF s = <<>> THEN <<>>
    ELSE LET front == Distinct(SubSeq(s, 1, Len(s) - 1))
         IN IF s[Len(s)] \in Range(front) THEN front ELSE Append(front, s[Len(s)])

IsPrefix(s, t) == Len(s) <= Len(t) /\ \A k \in 1..Len(s) : s[k] = t[k]

\* Breadth-first discovery order written without a queue: the list is walked
\* front to back, and the walk of position i appends, in the order of that
\* node's successor list, each successor that is not yet listed, not closed
\* and not a seed, and whose predecessors are all closed, seeds or listed.
RECURSIVE DiscoverFrom(_, _, _)
DiscoverFrom(ws, k, list) ==
    IF k > Len(ws) THEN list
    ELSE LET w == ws[k]
             resolved == ClosedNodes \cup Seeds \cup Range(list)
         IN IF w \notin resolved /\ Preds(w) \subseteq resolved
            THEN DiscoverFrom(ws, k + 1, Append(list, w))
            ELSE DiscoverFrom(ws, k + 1, list)

RECURSIVE DiscoveryOrder(_, _)
DiscoveryOrder(list, i) ==
    IF i > Len(list) THEN list
    ELSE DiscoveryOrder(DiscoverFrom(successors_slice(graph, list[i]), 1, list), i + 1)

\* v0 -> v1 -> ... -> vk with k >= 1, the nodes numbered along the chain.
IsChain(g) ==
    /\ g.n >= 2
    /\ \A i \in 1..(g.n - 1) : g.succ[i] = <<i>>
    /\ g.succ[g.n] = <<>>

\* C14: cascade_ids starts with the distinct direct unblocks in successor-list
\* order and continues in breadth-first (FIFO) discovery order; closing the
\* head of a chain v0 -> ... -> vk lists v1 .. vk in chain order.
C14_FifoOrder ==
    /\ Accepted =>
           /\ IsPrefix(Distinct(result.unblocked_ids), result.cascade_ids)
           /\ result.cascade_ids = DiscoveryOrder(Distinct(result.unblocked_ids), 1)
    /\ (Accepted /\ IsChain(graph) /\ ClosedNodes = {} /\ node = 0) =>
           /\ result.direct_unblocks = 1
           /\ result.transitive_unblocks = len(graph) - 1
           /\ result.cascade_ids = [k \in 1..(len(graph) - 1) |-> k]

\* Two direct unblocks, each discovering one node: first-in first-out.
C14_Witness ==
    /\ Accepted /\ graph = TwoBranches /\ ClosedNodes = {} /\ node = 0
    /\ result.cascade_ids = <<1, 2, 3, 4>>

C14_ChainWitness ==
    /\ Accepted /\ graph = DeepChain /\ ClosedNodes = {} /\ node = 0
    /\ result.cascade_ids = <<1, 2, 3, 4, 5>>

C15_TopWitness ==
    /\ op = "top_what_if" /\ Len(ranking) >= 2 /\ ClosedNodes # {}

\* ---------------------------------------------------------------- C16
\* A simple directed cycle through all the nodes, of length >= 2: every node
\* has one successor and one predecessor, and the successors of node 0 lead
\* through every node.
IsSimpleCycle(g) ==
    /\ g.n >= 2
    /\ \A i \in 1..g.n : Len(g.succ[i]) = 1 /\ Len(g.pred[i]) = 1
    /\ Downstream({0}, {}) = Nodes

\* C16: on a simple directed cycle with nothing closed, closing a node gives
\* at most one direct unblock, which is its successor, and the closed node
\* itself is in neither list although the cycle leads back to it.
C16_CycleHandling ==
    (Accepted /\ IsSimpleCycle(graph) /\ ClosedNodes = {}) =>
        /\ result.direct_unblocks <= 1
        /\ Range(result.unblocked_ids) \subseteq Succs(node)
        /\ node \notin Range(result.unblocked_ids)
        /\ node \notin Range(result.cascade_ids)

\* The 3-cycle: the cascade runs round the cycle and stops before the closed
\* node.
C16_Witness ==
    /\ Accepted /\ IsSimpleCycle(graph) /\ ClosedNodes = {}
    /\ len(graph) = 3
    /\ result.direct_unblocks = 1
    /\ Range(result.cascade_ids) = Nodes \ {node}

\* ---------------------------------------------------------------- C17
\* C17: closing the batch <<v>> gives the result of closing v alone, field for
\* field, for every graph, closed-set and index v (out of range and already
\* closed included).  Read from both calls.
C17_BatchOfOne ==
    /\ op = "what_if_close" =>
           what_if_close_batch(graph, <<node>>, closed_set) = result
    /\ (op = "what_if_close_batch" /\ Len(nodes) = 1) =>
           what_if_close(graph, nodes[1], closed_set) = result

\* The two agree wherever the closed node has no successor edge twice: the
\* difference is confined to the doubled edges of C18.
C17_AgreeOnSimpleSuccessors ==
    (op = "what_if_close" /\ (node < len(graph) => NoDup(successors_slice(graph, node)))) =>
        what_if_close_batch(graph, <<node>>, closed_set) = result

\* A doubled edge v -> w whose target is unblocked: the single close lists w
\* twice, the batch of one lists it once.
C17_DoubledEdgeCase ==
    /\ Accepted
    /\ ~NoDup(result.unblocked_ids)
    /\ NoDup(what_if_close_batch(graph, <<node>>, closed_set).unblocked_ids)
    /\ result.cascade_ids = what_if_close_batch(graph, <<node>>, closed_set).cascade_ids

\* ---------------------------------------------------------------- C18
\* C18: in every result of what_if_close and what_if_close_batch,
\* unblocked_ids holds no index twice, each of its indices is in cascade_ids,
\* and direct_unblocks <= transitive_unblocks; doubled edges included.
C18_DirectWithinCascade ==
    Simulated =>
        /\ NoDup(result.unblocked_ids)
        /\ Range(result.unblocked_ids) \subseteq Range(result.cascade_ids)
        /\ result.direct_unblocks <= result.transitive_unblocks

\* The batch call, which skips a successor it has already examined, keeps the
\* three properties; so does the single close on successors without doubles.
C18_HoldsWithSeenGuard ==
    (\/ op = "what_if_close_batch"
     \/ (Accepted /\ NoDup(successors_slice(graph, node)))) =>
        /\ NoDup(result.unblocked_ids)
        /\ Range(result.unblocked_ids) \subseteq Range(result.cascade_ids)
        /\ result.direct_unblocks <= result.transitive_unblocks

\* The direct count exceeds the cascade count on a doubled edge.
C18_DoubleCount ==
    /\ Accepted
    /\ result.direct_unblocks > result.transitive_unblocks
    /\ Range(result.unblocked_ids) = Range(result.cascade_ids)

\* ---------------------------------------------------------------- C19
\* The nodes a result reports, directly or in the cascade.
Reported == Range(result.unblocked_ids) \cup Range(result.cascade_ids)

\* C19: no node of unblocked_ids or cascade_ids is closed in the original
\* closed-set, none is a seed (the closed node, or a member of the batch), and
\* none was already actionable under the original closed-set.
C19_StatusChanges ==
    Simulated =>
        \A w \in Reported :
            /\ w \notin ClosedNodes
            /\ w \notin Seeds
            /\ ~Actionable(w, ClosedNodes)

\* A call that reports something while another successor of a seed is left
\* out because it was closed or actionable before.
C19_Witness ==
    /\ Simulated
    /\ Reported # {}
    /\ ClosedNodes # {}
    /\ \E v \in Seeds : \E w \in Succs(v) \ Reported :
           w \in ClosedNodes \/ Actionable(w, ClosedNodes)

\* A batch holding a node that was closed already, whose successor was
\* actionable before the call and is not reported.
C19_ClosedSeedWitness ==
    /\ op = "what_if_close_batch"
    /\ \E v \in Seeds \cap ClosedNodes : \E w \in Succs(v) :
           Actionable(w, ClosedNodes) /\ w \notin Reported

\* ---------------------------------------------------------------- C20
\* The closed-set count_cascade is handed: the original one, padded, with the
\* seeds closed.
NewClosed == [k \in 1..len(graph) |-> (k - 1) \in ClosedNodes \cup Seeds]

\* The locals of count_cascade when its loop has ended, for the call recorded
\* in the state.
FinalBfs == cascade_run(graph, result.unblocked_ids, NewClosed)

\* The call reached the loop of count_cascade.
RanBfs == Simulated /\ len(graph) > 0 /\ result.unblocked_ids # <<>>

MarkedClosed(st) == {i \in Nodes : st.closed[i + 1]}

MarkedVisited(st) == {i \in Nodes : st.visited[i + 1]}

HasCycle == \E v \in Nodes : v \in Downstream({v}, {})

\* C20: the loop of count_cascade ends, cycles and self-loops included.  Each
\* node is enqueued when it is first marked visited, hence once; at most n
\* nodes are enqueued and dequeued; at the end the queue is empty and the
\* working closed-set is the initial one plus the seeds plus the cascade.
C20_BfsBounded ==
    RanBfs =>
        /\ FinalBfs.cascade = result.cascade_ids
        /\ FinalBfs.queue = <<>>
        /\ NoDup(FinalBfs.cascade)
        /\ MarkedVisited(FinalBfs) = Range(FinalBfs.cascade)
        /\ FinalBfs.pops = Len(FinalBfs.cascade)
        /\ FinalBfs.pops <= len(graph)
        /\ Range(result.cascade_ids) \subseteq MarkedClosed(FinalBfs)
        /\ MarkedClosed(FinalBfs) = ClosedNodes \cup Seeds \cup Range(result.cascade_ids)

\* A cascade of two or more nodes on a graph with a cycle.
C20_Witness ==
    /\ RanBfs /\ HasCycle
    /\ FinalBfs.pops >= 2
    /\ FinalBfs.queue = <<>>

\* A self-loop downstream of the cascade: the node is examined and never
\* enqueued.
C20_SelfLoopWitness ==
    /\ RanBfs
    /\ \E w \in Nodes \ Range(result.cascade_ids) :
           /\ w \in Succs(w)
           /\ Preds(w) \cap Range(result.cascade_ids) # {}

\* ---------------------------------------------------------------- C21
\* The cascade of closing v alone, on the closed-set of the recorded call.
SingleCascade(v) == Range(what_if_close(graph, v, closed_set).cascade_ids)

\* A batch call all of whose indices are in range.
InRangeBatch == op = "what_if_close_batch" /\ Range(nodes) \subseteq Nodes

\* C21: closing more nodes never shrinks the cascade.  For a batch S of
\* in-range nodes and every not-closed v in S, each node of the cascade of
\* closing v alone that is not a member of S is in the cascade of the batch.
C21_BatchMonotone ==
    InRangeBatch =>
        \A v \in Range(nodes) \ ClosedNodes :
            SingleCascade(v) \ Range(nodes) \subseteq Range(result.cascade_ids)

\* A batch of two open nodes, one in the other's cascade: that member is
\* left out of the batch cascade, the nodes behind it are kept.
C21_Witness ==
    /\ InRangeBatch
    /\ \E v, u \in Range(nodes) \ ClosedNodes :
           /\ v # u
           /\ u \in SingleCascade(v)
           /\ SingleCascade(v) \ Range(nodes) # {}

\* The batch cascade holds a node that no member's own cascade holds (a node
\* blocked by two members): the inclusion is strict.
C21_StrictWitness ==
    /\ InRangeBatch
    /\ Range(result.cascade_ids) \ UNION {SingleCascade(v) : v \in Range(nodes)} # {}

====
